---- MODULE Spec2Model ----
(***************************************************************************)
(* Org-unit tree, office registry and permission resolver of the user      *)
(* portal: controllers/org-units.js (POST /, PUT /:id, DELETE /:id,         *)
(* getChain, sortChain) and                                                *)
(* helpers/permissions.js (has, hasOverUnit, hasOverUser, hasOverOffice,   *)
(* normalizeOfficer).                                                      *)
(*                                                                         *)
(* db    the persisted rows: units, offices, users, the auto-increment     *)
(* pre   the persisted rows as they were when the request arrived          *)
(* last  the request being answered and its response; Idle between requests *)
(***************************************************************************)
EXTENDS Integers, Sequences, FiniteSets, TLC

VARIABLES db, pre, last

vars == <<db, pre, last>>

(***************************************************************************)
(* Bounds of the model.                                                    *)
(***************************************************************************)
\* Largest unit id the auto-increment hands out.
MaxId == 3
\* User ids 1..NumUsers; each can be the acting officer of a request.
NumUsers == 3

(***************************************************************************)
(* Values.                                                                 *)
(***************************************************************************)
\* National is assumed to be unit 1.
RootID == 1
\* A NULL column / an absent or falsy numeric value.
Null == 0

\* OrgUnit.getTypes(): the fixed total order of unit types.
Types == <<"Nation", "Region", "Domain", "Venue">>

\* Array.prototype.indexOf: position from 0, or -1.
indexOf(arr, x) ==
    IF \E i \in 1..Len(arr) : arr[i] = x
    THEN (CHOOSE i \in 1..Len(arr) : arr[i] = x /\ \A j \in 1..(i - 1) : arr[j] # x) - 1
    ELSE -1

\* String.prototype.toLowerCase on the type names.
toLowerCase(s) ==
    CASE s = "Nation" -> "nation"
      [] s = "Region" -> "region"
      [] s = "Domain" -> "domain"
      [] s = "Venue"  -> "venue"
      [] OTHER        -> s

\* Request parameters and unit codes are strings, kept as sequences of characters.
Digits == <<"0", "1", "2", "3", "4", "5", "6", "7", "8", "9">>

IsDigit(c) == indexOf(Digits, c) # -1

RECURSIVE DigitsValue(_, _, _)
\* Value of the run of digits of s that starts at position i, acc so far.
DigitsValue(s, i, acc) ==
    IF i > Len(s) \/ ~IsDigit(s[i]) THEN acc
    ELSE DigitsValue(s, i + 1, acc * 10 + indexOf(Digits, s[i]))

\* Number.parseInt: the leading digits of the string, NaN when it has none.
parseInt(s) ==
    IF s = <<>> \/ ~IsDigit(s[1])
    THEN [nan |-> TRUE, n |-> 0]
    ELSE [nan |-> FALSE, n |-> DigitsValue(s, 1, 0)]

NaN == [nan |-> TRUE, n |-> 0]

\* JavaScript a !== b on numbers: NaN is unequal to everything, itself included.
StrictNotEqual(a, b) == a.nan \/ b.nan \/ a.n # b.n

\* JavaScript a === b on numbers.
StrictEqual(a, b) == ~StrictNotEqual(a, b)

\* _.isEmpty on a request body.
isEmpty(data) == DOMAIN data = {}

\* Whether the object has the attribute.
Has(data, f) == f \in DOMAIN data

(***************************************************************************)
(* Tree Store queries (models/org_units).                                  *)
(***************************************************************************)
UnitIds(d) == DOMAIN d.units

RECURSIVE Reverse(_)
Reverse(s) == IF s = <<>> THEN <<>> ELSE Append(Reverse(Tail(s)), Head(s))

\* getAncestors: the ancestors implied by parentPath, immediate parent first,
\* root last; empty for the root.
getParents(d, id) ==
    LET path == d.units[id].parentPath
    IN  Reverse(SubSeq(path, 1, Len(path) - 1))

\* unit.parents(): the ancestor chain the delete handler pops from.
parents(d, id) == getParents(d, id)

\* Array.prototype.pop: the last element, Null (undefined) for an empty array.
pop(arr) == IF arr = <<>> THEN Null ELSE arr[Len(arr)]

\* unit.getChildren(): the units directly under the unit.
getChildren(d, id) == { c \in UnitIds(d) : d.units[c].parentID = id }

(***************************************************************************)
(* Permission resolver (helpers/permissions.js).                           *)
(***************************************************************************)
\* The officer argument: a user id, a user model, or an already resolved
\* collection of offices.
OfficerId(n)     == [kind |-> "id", id |-> n, offices |-> {}]
OfficerModel(n)  == [kind |-> "model", id |-> n, offices |-> {}]
OfficerOffices(s) == [kind |-> "offices", id |-> Null, offices |-> s]

\* normalizeOfficer: a collection is passed through; otherwise the offices of the
\* user are fetched with require: true, which rejects when there are none.
normalizeOfficer(d, officer) ==
    IF officer.kind = "offices"
    THEN [ok |-> TRUE, offices |-> officer.offices]
    ELSE LET found == { o \in d.offices : o.userID = officer.id }
         IN  [ok |-> found # {}, offices |-> found]

\* !offices on the array Array.prototype.filter returned: an array is truthy,
\* the empty one included.
NotArray(arr) == FALSE

\* has(permission, officer): the officer's offices whose roles hold the permission.
\* An office without roles is represented by roles = {}.
has(d, permission, officer) ==
    LET n == normalizeOfficer(d, officer)
    IN  IF ~n.ok
        THEN [ok |-> FALSE, error |-> "User has no offices", offices |-> {}]
        ELSE LET granting == { o \in n.offices : permission \in o.roles }
             IN  IF NotArray(granting)
                 THEN [ok |-> FALSE, error |-> "No offices with permission", offices |-> {}]
                 ELSE [ok |-> TRUE, error |-> "", offices |-> granting]

\* mapCollection(coll, field) for field parentOrgID.
mapParentOrgID(coll) == { o.parentOrgID : o \in coll }

\* The unit argument: a fetched model, an integer id, or nothing (null/undefined).
UnitModel(id) == [kind |-> "model", id |-> id]
UnitId(id)    == [kind |-> "id", id |-> id]
UnitNone      == [kind |-> "none", id |-> Null]

\* The outcome of a permission check: granted (resolves true) or a rejection;
\* userError tells a UserError (with its status) from a plain Error.
Granted == [granted |-> TRUE, error |-> "", userError |-> FALSE, status |-> 200]
Denied(msg) == [granted |-> FALSE, error |-> msg, userError |-> FALSE, status |-> 0]
DeniedUser(msg, code) == [granted |-> FALSE, error |-> msg, userError |-> TRUE, status |-> code]

\* chainCheck without the walk: the ancestors are never looked at.
chainCheckNoWalk(d, id, officeOrgs) == Denied("Officer not found in chain")

\* The ancestor walk at the end of hasOverUnit.
chainCheck(d, id, officeOrgs) ==
    LET ps == getParents(d, id)
    IN  IF \E p \in 1..Len(ps) : ps[p] \in officeOrgs
        THEN Granted
        ELSE Denied("Officer not found in chain")

\* The checks of hasOverUnit once offices and unit are resolved.
overUnitChecks(d, id, offs) ==
    LET officeOrgs == mapParentOrgID(offs)
    IN  IF RootID \in officeOrgs THEN Granted
        ELSE IF id \in officeOrgs THEN Granted
        ELSE chainCheck(d, id, officeOrgs)

\* hasOverUnit(unit, permission, officer).
hasOverUnit(d, unit, permission, officer) ==
    LET h == has(d, permission, officer)
        \* if ( ! unit ) unit = 1
        u == IF unit.kind = "none" \/ (unit.kind = "id" /\ unit.id = Null)
             THEN UnitId(RootID) ELSE unit
    IN  IF ~h.ok THEN Denied(h.error)
        ELSE IF u.kind = "id" /\ u.id \notin UnitIds(d)
        THEN DeniedUser("Org unit not found.", 404)
        ELSE overUnitChecks(d, u.id, h.offices)

\* The user argument of hasOverUser: a user model with its orgUnit column.
UserModel(id, orgUnit) == [id |-> id, orgUnit |-> orgUnit]

\* userChainCheck without the walk: the ancestors are never looked at.
userChainCheckNoWalk(d, orgUnit, officeOrgs) == Denied("Officer not found in chain")

\* user.related( 'orgUnit' ).getParents() and the loop over the parents.
userChainCheck(d, orgUnit, officeOrgs) ==
    LET ps == getParents(d, orgUnit)
    IN  IF \E p \in 1..Len(ps) : ps[p] \in officeOrgs
        THEN Granted
        ELSE Denied("Officer not found in chain")

\* hasOverUser(user, permission, officer).
hasOverUser(d, user, permission, officer) ==
    LET h == has(d, permission, officer)
        officeOrgs == mapParentOrgID(h.offices)
    IN  IF ~h.ok THEN Denied(h.error)
        ELSE IF user.orgUnit # Null
        THEN IF user.orgUnit \in officeOrgs THEN Granted
             ELSE userChainCheck(d, user.orgUnit, officeOrgs)
        ELSE IF 1 \in officeOrgs THEN Granted
             ELSE Denied("Not national officer")

(***************************************************************************)
(* Responses of the mutation routes.                                       *)
(***************************************************************************)
\* next( new UserError( msg, code ) ): nothing written, or rolled back.
Fail(d, msg, code) == [status |-> code, error |-> msg, db |-> d, target |-> Null]

\* res.json( ... ) after the writes that lead to database d.
Ok(d, id) == [status |-> 200, error |-> "", db |-> d, target |-> id]

\* The last .catch of each route: a UserError is passed on, any other error
\* becomes 'Authentication failed', 403.
authFailed(d, p) ==
    IF p.userError THEN Fail(d, p.error, p.status)
    ELSE Fail(d, "Authentication failed", 403)

(***************************************************************************)
(* POST / : create a unit.                                                 *)
(***************************************************************************)
\* The constraints of the create route, as validate.js applies them.
createValid(data) ==
    /\ Has(data, "name") /\ data.name # ""
    /\ Has(data, "code") /\ data.code # <<>>
    /\ (Has(data, "venueType") => data.venueType # "")
    /\ Has(data, "type") /\ data.type \in {"Venue", "Domain", "Region"}

\* createSave without the second save: parentPath stays as inserted.
createSaveNoId(d, data, path) ==
    LET id  == d.nextId
        row == [type |-> data.type, parentID |-> data.parentID,
                parentPath |-> path, code |-> data.code,
                lft |-> Null, rgt |-> Null]
    IN  Ok([d EXCEPT !.units = (id :> row) @@ d.units, !.nextId = id + 1], id)

\* The transaction: insert the row to get its id, then save parentPath with the
\* id appended.  parentPath is kept as the sequence of its dot-separated ids.
createSave(d, data, path) ==
    LET id  == d.nextId
        \* lft and rgt are not among the attributes saved
        row == [type |-> data.type, parentID |-> data.parentID,
                parentPath |-> Append(path, id), code |-> data.code,
                lft |-> Null, rgt |-> Null]
    IN  Ok([d EXCEPT !.units = (id :> row) @@ d.units, !.nextId = id + 1], id)

\* The .catch that follows the transaction: whatever was thrown before it in the
\* inner chain, the UserError of the validation included, is replaced.
createCatch(d, err) == Fail(d, "There was an error creating the org unit", 500)

\* .then( path => ... ): building the constraints throws a ReferenceError for a
\* Venue (contraints is not defined), which the last .catch turns into 403; a
\* rejected validation throws 'Invalid data provided' (400) inside the chain
\* that ends in createCatch.
createValidate(d, data, path) ==
    IF data.type = "Venue"
    THEN authFailed(d, Denied("contraints is not defined"))
    ELSE IF ~createValid(data)
    THEN createCatch(d, DeniedUser("Invalid data provided", 400))
    ELSE createSave(d, data, path)

\* createTypeCheck without the comparison of the ranks.
createTypeCheckSkipped(d, data) ==
    createValidate(d, data, d.units[data.parentID].parentPath)

\* .then( parent => ... ): the new unit must be one rank below its parent.
createTypeCheck(d, data) ==
    LET parent == d.units[data.parentID]
    IN  IF indexOf(Types, data.type) - 1 # indexOf(Types, parent.type)
        THEN Fail(d, "Org type doesn't match expected type", 400)
        ELSE createValidate(d, data, parent.parentPath)

\* Fetch the parent, then .tap( parent => perm.hasOverUnit( parent, role, user ) ).
createAuthorize(d, data, officer) ==
    IF data.parentID \notin UnitIds(d)
    THEN Fail(d, "Parent not found", 400)
    ELSE LET role == "org_create_" \o toLowerCase(data.type)
             p    == hasOverUnit(d, UnitModel(data.parentID), role, officer)
         IN  IF ~p.granted THEN authFailed(d, p)
             ELSE createTypeCheck(d, data)

\* router.post( '/' ).
create(d, data, officer) ==
    IF isEmpty(data)
    THEN Fail(d, "No data provided", 400)
    ELSE IF ~Has(data, "parentID") \/ data.parentID = Null
    THEN Fail(d, "No parent provided", 400)
    ELSE IF ~Has(data, "type") \/ indexOf(Types, data.type) = -1 \/ data.type = "Nation"
    THEN Fail(d, "Invalid org unit type", 400)
    ELSE createAuthorize(d, data, officer)

(***************************************************************************)
(* PUT /:id : update a unit.                                               *)
(***************************************************************************)
\* query.where( 'id', n ).fetch(): the rows with that id; none for NaN.
whereId(d, n) == { u \in UnitIds(d) : ~n.nan /\ u = n.n }

\* query.where( 'code', s ).fetch(): the rows with that code.
whereCode(d, s) == { u \in UnitIds(d) : d.units[u].code = s }

\* The first row of a query.
first(rows) == CHOOSE u \in rows : \A v \in rows : u <= v

\* The query the update route builds from req.params.id.
updateQuery(d, ref) ==
    IF StrictNotEqual(NaN, parseInt(ref))
    THEN whereId(d, parseInt(ref))
    ELSE whereCode(d, ref)

\* The constraints of the update route.
updateValid(body) ==
    /\ (Has(body, "name") => body.name # "")
    /\ (Has(body, "code") => body.code # <<>>)
    /\ (Has(body, "type") => body.type \in {"Venue", "Domain", "Region"})

\* unit.save( attributes ): the supplied columns are overwritten.
updateSave(d, id, body) ==
    LET old == d.units[id]
        row == [old EXCEPT !.type = IF Has(body, "type") THEN body.type ELSE @,
                           !.code = IF Has(body, "code") THEN body.code ELSE @]
    IN  Ok([d EXCEPT !.units[id] = row], id)

\* .then( unit => ... ): validate, then save.
updateValidate(d, id, body) ==
    IF ~updateValid(body)
    THEN Fail(d, "Invalid data provided", 400)
    ELSE updateSave(d, id, body)

\* updateAuthorize without the permission check.
updateAuthorizeSkipped(d, id, body, officer) == updateValidate(d, id, body)

\* .tap( unit => perm.hasOverUnit( unit, 'org_update', user ) ).
updateAuthorize(d, id, body, officer) ==
    LET p == hasOverUnit(d, UnitModel(id), "org_update", officer)
    IN  IF ~p.granted THEN authFailed(d, p)
        ELSE updateValidate(d, id, body)

\* router.put( '/:id' ).
update(d, ref, body, officer) ==
    IF isEmpty(body)
    THEN Fail(d, "No data provided", 400)
    ELSE LET rows == updateQuery(d, ref)
         IN  IF rows = {} THEN Fail(d, "Org unit not found", 404)
             ELSE updateAuthorize(d, first(rows), body, officer)

(***************************************************************************)
(* DELETE /:id : delete a unit.                                            *)
(***************************************************************************)
\* deleteTransaction that leaves the unit's offices in place.
deleteTransactionKeepsOffices(d, id) ==
    LET parent == pop(parents(d, id))
    IN  IF parent = Null
        THEN Fail(d, "No parent found", 500)
        ELSE Ok([d EXCEPT
                   !.users = [u \in DOMAIN d.users |->
                                 IF d.users[u] = id THEN parent ELSE d.users[u]],
                   !.units = [u \in UnitIds(d) \ {id} |-> d.units[u]]], id)

\* The transaction: destroy the unit's offices, move its users to the popped
\* parent, destroy the unit.
deleteTransaction(d, id) ==
    LET parent == pop(parents(d, id))
    IN  IF parent = Null
        THEN Fail(d, "No parent found", 500)
        ELSE Ok([d EXCEPT
                   !.offices = { o \in d.offices : o.parentOrgID # id },
                   !.users   = [u \in DOMAIN d.users |->
                                   IF d.users[u] = id THEN parent ELSE d.users[u]],
                   !.units   = [u \in UnitIds(d) \ {id} |-> d.units[u]]], id)

\* deleteChildrenCheck without the check.
deleteChildrenCheckSkipped(d, id) == deleteTransaction(d, id)

\* .tap( unit => unit.getChildren() ... ).
deleteChildrenCheck(d, id) ==
    IF Cardinality(getChildren(d, id)) # 0
    THEN Fail(d, "Cannot delete org with children", 500)
    ELSE deleteTransaction(d, id)

\* .tap( unit => perm.hasOverUnit( unit, 'org_create_<type>', user ) ).
deleteAuthorize(d, id, officer) ==
    LET role == "org_create_" \o toLowerCase(d.units[id].type)
        p    == hasOverUnit(d, UnitModel(id), role, officer)
    IN  IF ~p.granted THEN authFailed(d, p)
        ELSE deleteChildrenCheck(d, id)

\* query.fetch({ require: true }) of the delete route.
deleteFetch(d, rows, officer) ==
    IF rows = {} THEN Fail(d, "Org unit not found", 404)
    ELSE deleteAuthorize(d, first(rows), officer)

\* delete without the refusal of id 1.
deleteRootAllowed(d, ref, officer) == deleteFetch(d, whereId(d, parseInt(ref)), officer)

\* router.delete( '/:id' ).  In the else branch the code column is compared with
\* the parsed id, which is NaN there and equals no code.
delete(d, ref, officer) ==
    LET id == parseInt(ref)
    IN  IF StrictNotEqual(NaN, id)
        THEN IF StrictEqual([nan |-> FALSE, n |-> 1], id)
             THEN Fail(d, "Cannot delete root org", 500)
             ELSE deleteFetch(d, whereId(d, id), officer)
        ELSE deleteFetch(d, {}, officer)

\* The three statements of the transaction.
Statements == {"offices", "users", "unit"}

\* The rows as the statements of the transaction leave them when statement
\* fault fails: Promise.join has started all three.
deleteWrites(d, id, fault) ==
    LET parent == pop(parents(d, id))
    IN  [d EXCEPT
           !.offices = IF fault = "offices" THEN d.offices
                       ELSE { o \in d.offices : o.parentOrgID # id },
           !.users   = IF fault = "users" THEN d.users
                       ELSE [u \in DOMAIN d.users |->
                               IF d.users[u] = id THEN parent ELSE d.users[u]],
           !.units   = IF fault = "unit" THEN d.units
                       ELSE [u \in UnitIds(d) \ {id} |-> d.units[u]]]

\* rolledBack for statements issued without transacting: t.
notRolledBack(d, written) == written

\* Bookshelf.transaction whose promise rejects: the statements issued with
\* transacting: t are undone.
rolledBack(d, written) == d

\* The transaction when one of its statements fails: a failed unit.destroy is
\* rethrown as a UserError, any other failure reaches the last .catch as it is.
deleteRejected(d, id, fault) ==
    LET after == rolledBack(d, deleteWrites(d, id, fault))
    IN  IF fault = "unit"
        THEN Fail(after, "Could not delete org", 500)
        ELSE authFailed(after, Denied("statement failed"))

(***************************************************************************)
(* The database the service starts from, and the requests it receives.     *)
(***************************************************************************)
Permissions == {"org_update", "org_create_region", "org_create_domain", "org_create_venue"}

Office(id, user, unitId, roles) ==
    [id |-> id, userID |-> user, parentOrgID |-> unitId, parentOfficeID |-> Null,
     roles |-> roles]

Unit(type, parentID, path, code) ==
    [type |-> type, parentID |-> parentID, parentPath |-> path, code |-> code,
     lft |-> Null, rgt |-> Null]

\* The unit with its nested-set bounds.
Bounds(unit, lft, rgt) == [unit EXCEPT !.lft = lft, !.rgt = rgt]

\* A nation without any unit under it: one national officer.
SeedNation ==
    [units   |-> (1 :> Bounds(Unit("Nation", Null, <<1>>, <<"N", "A">>), 1, 2)),
     offices |-> {Office(1, 1, 1, Permissions \cup {"org_create_nation"})},
     users   |-> [u \in 1..NumUsers |-> IF u = 1 THEN Null ELSE 1],
     nextId  |-> 2]

\* Nation 1 > Region 2 > Domain 3: user 1 is a national officer, user 2 a
\* regional officer who also holds an office in the domain, user 3 holds an
\* office without roles, the users after them hold none.
SeedChain ==
    [units   |-> (1 :> Bounds(Unit("Nation", Null, <<1>>, <<"N", "A">>), 1, 10))
              @@ (2 :> Bounds(Unit("Region", 1, <<1, 2>>, <<"R", "E">>), 2, 5))
              @@ (3 :> Bounds(Unit("Domain", 2, <<1, 2, 3>>, <<"D", "O">>), 3, 4)),
     offices |-> {Office(1, 1, 1, Permissions \cup {"org_create_nation"}),
                  Office(2, 2, 2, Permissions \ {"org_create_region"}),
                  Office(3, 2, 3, {"org_update"}),
                  Office(4, 3, 3, {})},
     users   |-> [u \in 1..NumUsers |-> IF u = 1 THEN Null ELSE IF u = 2 THEN 2 ELSE 3],
     nextId  |-> 4]

Seeds == {SeedNation, SeedChain}

\* The string of an id below 10.
IdString(i) == <<Digits[i + 1]>>

\* The root's id written with a leading zero.
RootPadded == <<"0", "1">>

\* req.params.id of update and delete requests: an id, or a unit's code.
Refs(d) ==
    { IdString(i) : i \in 1..MaxId } \cup {RootPadded}
        \cup { d.units[u].code : u \in { v \in UnitIds(d) : d.units[v].code # <<>> } }

\* Bodies of create requests.
CreateBodies(d) ==
    { <<>>, [type |-> "Region", name |-> "x", code |-> <<"X", "Y">>] }
        \cup { [parentID |-> p, type |-> t, name |-> n, code |-> <<"X", "Y">>, venueType |-> "v"] :
                 p \in UnitIds(d) \cup {MaxId + 1},
                 t \in {"Nation", "Region", "Domain", "Venue"},
                 n \in {"x", ""} }

\* Bodies of update requests.
UpdateBodies ==
    { <<>>, [name |-> ""], [type |-> "Region"], [type |-> "Venue"], [type |-> "Nation"] }

Request(op, ref, data, officer, out) ==
    [op |-> op, ref |-> ref, data |-> data, officer |-> officer,
     status |-> out.status, error |-> out.error, target |-> out.target]

\* No request is being answered.
Idle ==
    [op |-> "none", ref |-> <<>>, data |-> <<>>, officer |-> Null,
     status |-> 0, error |-> "", target |-> Null]

Init ==
    /\ db \in Seeds
    /\ pre = db
    /\ last = Idle

\* A create request of some officer.
Create ==
    \E data \in CreateBodies(db), officer \in 1..NumUsers :
        LET out == create(db, data, OfficerId(officer))
        IN  /\ last = Idle
            /\ out.db.nextId <= MaxId + 1
            /\ db' = out.db
            /\ pre' = db
            /\ last' = Request("create", <<>>, data, officer, out)

\* An update request of some officer.
Update ==
    \E ref \in Refs(db), body \in UpdateBodies, officer \in 1..NumUsers :
        LET out == update(db, ref, body, OfficerId(officer))
        IN  /\ last = Idle
            /\ db' = out.db
            /\ pre' = db
            /\ last' = Request("update", ref, body, officer, out)

\* A delete request of some officer.
Delete ==
    \E ref \in Refs(db), officer \in 1..NumUsers :
        LET out == delete(db, ref, OfficerId(officer))
        IN  /\ last = Idle
            /\ db' = out.db
            /\ pre' = db
            /\ last' = Request("delete", ref, <<>>, officer, out)

\* A delete request that gets as far as the transaction (as the request does that
\* succeeds when every statement does), where one statement fails.
DeleteRejected ==
    \E ref \in Refs(db), officer \in 1..NumUsers, fault \in Statements :
        LET reached == delete(db, ref, OfficerId(officer))
            out     == deleteRejected(db, reached.target, fault)
        IN  /\ last = Idle
            /\ reached.status = 200
            /\ db' = out.db
            /\ pre' = db
            /\ last' = Request("delete", ref, [fault |-> fault], officer, out)

\* The response is sent; the service takes the next request.
Respond ==
    /\ last # Idle
    /\ last' = Idle
    /\ pre' = db
    /\ UNCHANGED db

Next == Create \/ Update \/ Delete \/ DeleteRejected \/ Respond

Spec == Init /\ [][Next]_vars

(***************************************************************************)
(* The permission resolver called on its own: every tree of up to MaxId    *)
(* units, every set of at most two offices, every form of the arguments.   *)
(***************************************************************************)
\* parentPath of unit i under the parent links par.
RECURSIVE PathOf(_, _)
PathOf(par, i) == IF i = RootID THEN <<RootID>> ELSE Append(PathOf(par, par[i]), i)

\* The units of the subtree of unit s, s included.
SubtreeOf(n, par, s) ==
    { j \in 1..n : \E k \in 1..Len(PathOf(par, j)) : PathOf(par, j)[k] = s }

\* lft of unit i when the tree is numbered depth first, siblings by id.
RECURSIVE LftOf(_, _, _)
LftOf(n, par, i) ==
    IF i = RootID THEN 1
    ELSE LftOf(n, par, par[i]) + 1
           + 2 * Cardinality(UNION { SubtreeOf(n, par, s) :
                                       s \in { t \in 2..(i - 1) : par[t] = par[i] } })

RgtOf(n, par, i) == LftOf(n, par, i) + 2 * Cardinality(SubtreeOf(n, par, i)) - 1

\* The units of the tree with parent links par: the type follows from the depth.
TreeUnits(n, par) ==
    [i \in 1..n |->
        Bounds(Unit(Types[Len(PathOf(par, i))],
                    IF i = RootID THEN Null ELSE par[i],
                    PathOf(par, i),
                    <<"U", Digits[i + 1]>>),
               LftOf(n, par, i), RgtOf(n, par, i))]

\* Parent links of the valid trees on the ids 1..n, no unit deeper than a Venue.
ParentLinks(n) ==
    { par \in [2..n -> 1..n] :
        /\ \A i \in 2..n : par[i] < i
        /\ \A i \in 2..n : Len(PathOf(par, i)) <= Len(Types) }

\* The roles an office of the resolver runs carries.
RoleSets == <<{}, {"org_update"}, {"org_update", "org_create_domain"}>>

\* The offices over the units 1..n; users 1 and 2 hold offices, the others none.
OfficesOver(n) ==
    { Office(((u - 1) * n + (unitId - 1)) * Len(RoleSets) + r, u, unitId, RoleSets[r]) :
        u \in 1..2, unitId \in 1..n, r \in 1..Len(RoleSets) }

PermSeeds ==
    UNION { { [units |-> TreeUnits(n, par), offices |-> offs,
               users |-> [u \in 1..NumUsers |-> Null], nextId |-> n + 1] :
                par \in ParentLinks(n),
                offs \in { o \in SUBSET OfficesOver(n) : Cardinality(o) <= 2 } } :
            n \in 1..MaxId }

\* The forms of the unit argument: a model, an id (0 and a missing id included),
\* or nothing.
UnitArgs(d) ==
    { UnitModel(i) : i \in UnitIds(d) } \cup { UnitId(i) : i \in 0..(MaxId + 1) } \cup {UnitNone}

\* The forms of the officer argument: a user id or a user model.
OfficerArgs == { OfficerId(u) : u \in 1..NumUsers } \cup { OfficerModel(u) : u \in 1..NumUsers }

InitPerm ==
    /\ db \in PermSeeds
    /\ pre = db
    /\ last = Idle

\* A call of hasOverUnit( unit, permission, officer ).
CallHasOverUnit ==
    \E unit \in UnitArgs(db), permission \in {"org_update", "org_create_domain"},
       officer \in OfficerArgs :
        LET p == hasOverUnit(db, unit, permission, officer)
        IN  /\ last = Idle
            /\ last' = [op |-> "hasOverUnit", unit |-> unit, permission |-> permission,
                        officer |-> officer, granted |-> p.granted, error |-> p.error,
                        userError |-> p.userError, status |-> p.status]
            /\ pre' = db
            /\ UNCHANGED db

\* A call of has( permission, officer ).
CallHas ==
    \E permission \in {"org_update", "org_create_domain"}, officer \in OfficerArgs :
        LET h == has(db, permission, officer)
        IN  /\ last = Idle
            /\ last' = [op |-> "has", permission |-> permission, officer |-> officer,
                        ok |-> h.ok, error |-> h.error, offices |-> h.offices]
            /\ pre' = db
            /\ UNCHANGED db

\* The forms of the user argument: the last user, attached to a unit or to none.
UserArgs(d) == { UserModel(NumUsers, orgUnit) : orgUnit \in UnitIds(d) \cup {Null} }

\* A call of hasOverUser( user, permission, officer ).
CallHasOverUser ==
    \E user \in UserArgs(db), permission \in {"org_update", "org_create_domain"},
       officer \in OfficerArgs :
        LET p == hasOverUser(db, user, permission, officer)
        IN  /\ last = Idle
            /\ last' = [op |-> "hasOverUser", user |-> user, permission |-> permission,
                        officer |-> officer, granted |-> p.granted, error |-> p.error,
                        userError |-> p.userError, status |-> p.status]
            /\ pre' = db
            /\ UNCHANGED db

NextPerm == CallHasOverUnit \/ CallHas \/ CallHasOverUser \/ Respond

SpecPerm == InitPerm /\ [][NextPerm]_vars

(***************************************************************************)
(* What the claims speak of.                                               *)
(***************************************************************************)
\* The ancestors of a unit by its parentID links.
RECURSIVE Ancestors(_, _)
Ancestors(d, id) ==
    IF id \notin UnitIds(d) \/ d.units[id].parentID \notin UnitIds(d) THEN {}
    ELSE {d.units[id].parentID} \cup Ancestors(d, d.units[id].parentID)

\* The unit a unit argument stands for: the root for an absent or falsy one.
TargetOf(unit) == IF unit.kind = "none" \/ unit.id = Null THEN RootID ELSE unit.id

\* The offices of user u in database d that carry the permission.
Carrying(d, u, permission) ==
    { o \in d.offices : o.userID = u /\ permission \in o.roles }

\* Some office of user u carries the permission over the root, the unit or an
\* ancestor of the unit.
Covers(d, u, permission, id) ==
    \E o \in Carrying(d, u, permission) :
        o.parentOrgID \in ({RootID, id} \cup Ancestors(d, id))

(***************************************************************************)
(* C1: hasOverUnit(unit, perm, officer) grants if and only if the officer  *)
(* holds an office whose roles contain perm and whose parentOrgID is the   *)
(* root, the target unit or an ancestor of the target unit (an absent unit *)
(* meaning the root); otherwise it does not grant but fails with an error. *)
(***************************************************************************)
C1_HasOverUnitIff ==
    (last.op = "hasOverUnit" /\ TargetOf(last.unit) \in UnitIds(db)) =>
        /\ last.granted <=>
              Covers(db, last.officer.id, last.permission, TargetOf(last.unit))
        /\ ~last.granted => last.error # ""

\* hasOverUnit granted through an office over an ancestor that is neither the
\* root nor the target itself.
C1_Witness ==
    /\ last.op = "hasOverUnit"
    /\ last.granted
    /\ \A o \in Carrying(db, last.officer.id, last.permission) :
          o.parentOrgID \notin {RootID, TargetOf(last.unit)}

\* A create, update or delete request has been handled.
Mutation == last.op \in {"create", "update", "delete"}

\* Position of a type in the order Nation < Region < Domain < Venue.
Rank(type) == indexOf(Types, type)

\* The units directly under a unit, by their parentID.
ChildrenOf(d, id) == { c \in UnitIds(d) : d.units[c].parentID = id }

\* The create request names an existing parent and one of the four types.
CreateUnder(parent) ==
    /\ last.op = "create"
    /\ Has(last.data, "parentID") /\ last.data.parentID = parent
    /\ parent \in UnitIds(pre)
    /\ Has(last.data, "type")

\* The update or delete request names unit id by its number.
NamesById(op, id) == last.op = op /\ last.ref = IdString(id) /\ id \in UnitIds(pre)

(***************************************************************************)
(* C2: no create, update or delete request changes a unit, an office or a  *)
(* user unless the acting officer holds the required permission over the   *)
(* unit concerned: org_create_<type> over the parent for create, org_update *)
(* over the unit for update, org_create_<unit type> over the unit for      *)
(* delete.  When the permission check fails the stored rows are unchanged. *)
(***************************************************************************)
C2_NoWriteWithoutPermission ==
    (Mutation /\ db # pre) =>
        /\ last.status = 200
        /\ last.op = "create" =>
              Covers(pre, last.officer,
                     "org_create_" \o toLowerCase(db.units[last.target].type),
                     db.units[last.target].parentID)
        /\ last.op = "update" =>
              Covers(pre, last.officer, "org_update", last.target)
        /\ last.op = "delete" =>
              Covers(pre, last.officer,
                     "org_create_" \o toLowerCase(pre.units[last.target].type),
                     last.target)

\* A well-formed update of an existing unit is refused because the officer does
\* not hold org_update over it, and nothing is written.
C2_Witness ==
    /\ \E id \in UnitIds(pre) : NamesById("update", id)
                                  /\ ~Covers(pre, last.officer, "org_update", id)
    /\ last.data = [type |-> "Venue"]
    /\ last.status = 403
    /\ db = pre

(***************************************************************************)
(* C3: in every reachable state every non-root unit's type rank is exactly *)
(* one greater than the type rank of its parent; an update that supplies a *)
(* type cannot leave a unit whose rank is not parent rank + 1.             *)
(***************************************************************************)
C3_RankAdjacency ==
    \A u \in UnitIds(db) :
        db.units[u].parentID \in UnitIds(db) =>
            Rank(db.units[u].type) = Rank(db.units[db.units[u].parentID].type) + 1

(***************************************************************************)
(* C4: a create request for a Venue under a Domain, by an officer holding  *)
(* org_create_venue over that Domain or an ancestor of it, with non-empty  *)
(* name, code and venueType, succeeds: the Venue exists afterwards as a    *)
(* child of the Domain.                                                    *)
(***************************************************************************)
C4_VenueUnderDomainSucceeds ==
    \A parent \in UnitIds(pre) :
        ( /\ CreateUnder(parent)
          /\ last.data.type = "Venue"
          /\ pre.units[parent].type = "Domain"
          /\ \E o \in Carrying(pre, last.officer, "org_create_venue") :
                o.parentOrgID \in ({parent} \cup Ancestors(pre, parent))
          /\ Has(last.data, "name") /\ last.data.name # ""
          /\ Has(last.data, "code") /\ last.data.code # <<>>
          /\ Has(last.data, "venueType") /\ last.data.venueType # "" )
        => /\ last.status = 200
           /\ last.target \in UnitIds(db) \ UnitIds(pre)
           /\ db.units[last.target].type = "Venue"
           /\ db.units[last.target].parentID = parent

\* The create request asks for a type that is not one rank below its parent's.
WrongRank(parent) ==
    /\ CreateUnder(parent)
    /\ last.data.type \in {"Nation", "Region", "Domain", "Venue"}
    /\ Rank(last.data.type) # Rank(pre.units[parent].type) + 1

\* The responses that refuse a request for the structure of the tree.
StructuralErrors == {"Org type doesn't match expected type", "Invalid org unit type"}

(***************************************************************************)
(* C5 as stated: a create request whose type is not exactly one rank below *)
(* the parent's type fails with the type-mismatch error and inserts no     *)
(* unit, for every officer and every attribute set.                        *)
(***************************************************************************)
C5_WrongRankIsStructuralError ==
    \A parent \in UnitIds(pre) :
        WrongRank(parent) =>
            /\ db = pre
            /\ last.status = 400
            /\ last.error \in StructuralErrors

(***************************************************************************)
(* C5 as amended: such a request fails and inserts no unit for every       *)
(* officer and every attribute set; a Nation is refused as an invalid      *)
(* type; for the other types the error is the type mismatch (400) when the *)
(* officer holds org_create_<type> over the parent, and the authorization  *)
(* failure (403) when the officer does not.                                *)
(***************************************************************************)
C5_WrongRankFails ==
    \A parent \in UnitIds(pre) :
        WrongRank(parent) =>
            LET type    == last.data.type
                allowed == Covers(pre, last.officer, "org_create_" \o toLowerCase(type), parent)
            IN  /\ db = pre
                /\ last.status # 200
                /\ type = "Nation" =>
                      last.status = 400 /\ last.error = "Invalid org unit type"
                /\ (type # "Nation" /\ allowed) =>
                      last.status = 400 /\ last.error = "Org type doesn't match expected type"
                /\ (type # "Nation" /\ ~allowed) => last.status = 403

\* A Venue is asked for under a Region by an officer holding org_create_venue
\* over the Region, and is refused for its rank.
C5_Witness ==
    \E parent \in UnitIds(pre) :
        /\ WrongRank(parent)
        /\ last.data.type = "Venue"
        /\ pre.units[parent].type = "Region"
        /\ Covers(pre, last.officer, "org_create_venue", parent)
        /\ last.error = "Org type doesn't match expected type"
        /\ db = pre

(***************************************************************************)
(* C6: a delete request on a unit that has at least one child fails and    *)
(* writes nothing: units, offices and users are as before; once the        *)
(* request is past the root refusal and the permission check, the error is *)
(* the has-children error.                                                 *)
(***************************************************************************)
C6_DeleteWithChildrenFails ==
    \A id \in UnitIds(pre) :
        (NamesById("delete", id) /\ ChildrenOf(pre, id) # {}) =>
            /\ db = pre
            /\ last.status # 200
            /\ ( /\ id # RootID
                 /\ Covers(pre, last.officer,
                           "org_create_" \o toLowerCase(pre.units[id].type), id) )
               => last.error = "Cannot delete org with children"

\* An officer with the permission asks to delete a unit that has a child.
C6_Witness ==
    \E id \in UnitIds(pre) :
        /\ NamesById("delete", id)
        /\ ChildrenOf(pre, id) # {}
        /\ last.error = "Cannot delete org with children"
        /\ db = pre

\* A delete request has removed unit last.target.
Deleted == last.op = "delete" /\ last.status = 200

C8_UnitGoneWithItsOffices ==
    Deleted =>
        /\ last.target \in UnitIds(pre) \ UnitIds(db)
        /\ \A o \in db.offices : o.parentOrgID # last.target
        /\ \A u \in DOMAIN db.users : db.users[u] # last.target
        /\ db.offices = { o \in pre.offices : o.parentOrgID # last.target }

\* A unit that had offices and users has been deleted.
C8_Witness ==
    /\ Deleted
    /\ \E o \in pre.offices : o.parentOrgID = last.target
    /\ \E o \in pre.offices : o.parentOrgID # last.target
    /\ \E u \in DOMAIN pre.users : pre.users[u] = last.target

(***************************************************************************)
(* C9: the root unit (id 1) is never deleted: a delete request that names  *)
(* it by its id or by its code fails for every officer, a national officer *)
(* holding org_create_nation included, and the root exists afterwards; the *)
(* request with id 1 is refused as such.                                   *)
(***************************************************************************)
C9_RootNeverDeleted ==
    /\ RootID \in UnitIds(db)
    /\ (last.op = "delete"
          /\ last.ref \in {IdString(RootID), RootPadded, pre.units[RootID].code}) =>
          /\ last.status # 200
          /\ db = pre
    /\ (last.op = "delete" /\ last.ref \in {IdString(RootID), RootPadded}) =>
          last.error = "Cannot delete root org"

\* A national officer holding org_create_nation asks to delete the root, which
\* has no child, by its code.
C9_Witness ==
    /\ last.op = "delete"
    /\ last.ref = pre.units[RootID].code
    /\ Covers(pre, last.officer, "org_create_nation", RootID)
    /\ ChildrenOf(pre, RootID) = {}
    /\ last.status # 200
    /\ RootID \in UnitIds(db)

(***************************************************************************)
(* C10: in every reachable state there is exactly one root: exactly one    *)
(* unit has no parent, it has id 1, and it is the only unit of type        *)
(* Nation.                                                                 *)
(***************************************************************************)
C10_SingleRoot ==
    /\ { u \in UnitIds(db) : db.units[u].parentID = Null } = {RootID}
    /\ { u \in UnitIds(db) : db.units[u].type = "Nation" } = {RootID}

(***************************************************************************)
(* Two requests in flight at once: DELETE /:id on a unit and POST / naming  *)
(* that unit as parent.  Every query a handler waits for is a step of its   *)
(* own; only the statements inside Bookshelf.transaction are one step.      *)
(* last holds the position of both handlers.                                *)
(***************************************************************************)
\* Nation 1 > Region 2: user 1 is a national officer, user 2 a regional one.
SeedRegion ==
    [units   |-> (1 :> Bounds(Unit("Nation", Null, <<1>>, <<"N", "A">>), 1, 4))
              @@ (2 :> Bounds(Unit("Region", 1, <<1, 2>>, <<"R", "E">>), 2, 3)),
     offices |-> {Office(1, 1, 1, Permissions \cup {"org_create_nation"}),
                  Office(2, 2, 2, Permissions)},
     users   |-> [u \in 1..NumUsers |-> IF u = 1 THEN Null ELSE 2],
     nextId  |-> 3]

RaceSeeds == Seeds \cup {SeedRegion}

\* A model not fetched yet.
NoUnit == Unit("", Null, <<>>, <<>>)

\* The database as a handler holding a fetched model sees it: the model keeps the
\* attributes it was fetched with.
ModelView(d, id, row) == [d EXCEPT !.units = (id :> row) @@ d.units]

\* The handler has called next( err ) or res.json( ... ).
Answered(r, out) == [r EXCEPT !.pc = "done", !.status = out.status, !.error = out.error]

InitRace ==
    /\ db \in RaceSeeds
    /\ pre = db
    /\ \E U \in UnitIds(db), t \in {"Region", "Domain"},
          o1 \in 1..NumUsers, o2 \in 1..NumUsers :
           last = [op  |-> "race",
                   del |-> [pc |-> "fetch", ref |-> IdString(U), officer |-> o1,
                            id |-> Null, unit |-> NoUnit, status |-> 0, error |-> ""],
                   cre |-> [pc |-> "fetch",
                            data |-> [parentID |-> U, type |-> t, name |-> "x",
                                      code |-> <<"X", "Y">>],
                            officer |-> o2, parent |-> NoUnit,
                            status |-> 0, error |-> "", target |-> Null]]

\* DELETE: the refusal of id 1 and query.fetch({ require: true }).
RaceDeleteFetch ==
    /\ last.op = "race" /\ last.del.pc = "fetch"
    /\ LET id   == parseInt(last.del.ref)
           rows == whereId(db, id)
       IN  last' =
             IF StrictNotEqual(NaN, id) /\ StrictEqual([nan |-> FALSE, n |-> 1], id)
             THEN [last EXCEPT !.del = Answered(@, Fail(db, "Cannot delete root org", 500))]
             ELSE IF rows = {}
             THEN [last EXCEPT !.del = Answered(@, Fail(db, "Org unit not found", 404))]
             ELSE [last EXCEPT !.del.pc = "authorize", !.del.id = first(rows),
                               !.del.unit = db.units[first(rows)]]
    /\ UNCHANGED <<db, pre>>

\* DELETE: .tap( unit => perm.hasOverUnit( ... ) ).
RaceDeleteAuthorize ==
    /\ last.op = "race" /\ last.del.pc = "authorize"
    /\ LET id   == last.del.id
           role == "org_create_" \o toLowerCase(last.del.unit.type)
           p    == hasOverUnit(ModelView(db, id, last.del.unit), UnitModel(id), role,
                               OfficerId(last.del.officer))
       IN  last' = IF ~p.granted
                   THEN [last EXCEPT !.del = Answered(@, authFailed(db, p))]
                   ELSE [last EXCEPT !.del.pc = "children"]
    /\ UNCHANGED <<db, pre>>

\* DELETE: .tap( unit => unit.getChildren() ... ).
RaceDeleteChildren ==
    /\ last.op = "race" /\ last.del.pc = "children"
    /\ last' = IF Cardinality(getChildren(db, last.del.id)) # 0
               THEN [last EXCEPT !.del = Answered(@, Fail(db, "Cannot delete org with children", 500))]
               ELSE [last EXCEPT !.del.pc = "transaction"]
    /\ UNCHANGED <<db, pre>>

\* DELETE: Bookshelf.transaction( t => ... ) and the response.
RaceDeleteTransaction ==
    /\ last.op = "race" /\ last.del.pc = "transaction"
    /\ LET out == deleteTransaction(ModelView(db, last.del.id, last.del.unit), last.del.id)
       IN  /\ db' = out.db
           /\ last' = [last EXCEPT !.del = Answered(@, out)]
    /\ UNCHANGED pre

\* POST: the fetch of the parent.
RaceCreateFetch ==
    /\ last.op = "race" /\ last.cre.pc = "fetch"
    /\ LET parentID == last.cre.data.parentID
       IN  last' = IF parentID \notin UnitIds(db)
                   THEN [last EXCEPT !.cre = Answered(@, Fail(db, "Parent not found", 400))]
                   ELSE [last EXCEPT !.cre.pc = "authorize", !.cre.parent = db.units[parentID]]
    /\ UNCHANGED <<db, pre>>

\* POST: .tap( parent => perm.hasOverUnit( ... ) ).
RaceCreateAuthorize ==
    /\ last.op = "race" /\ last.cre.pc = "authorize"
    /\ LET data == last.cre.data
           role == "org_create_" \o toLowerCase(data.type)
           p    == hasOverUnit(ModelView(db, data.parentID, last.cre.parent),
                               UnitModel(data.parentID), role, OfficerId(last.cre.officer))
       IN  last' = IF ~p.granted
                   THEN [last EXCEPT !.cre = Answered(@, authFailed(db, p))]
                   ELSE [last EXCEPT !.cre.pc = "insert"]
    /\ UNCHANGED <<db, pre>>

\* POST: the rank check and the validation on the fetched parent, then the
\* transaction that inserts the row, and the response.
RaceCreateInsert ==
    /\ last.op = "race" /\ last.cre.pc = "insert"
    /\ LET data == last.cre.data
           out  == IF indexOf(Types, data.type) - 1 # indexOf(Types, last.cre.parent.type)
                   THEN Fail(db, "Org type doesn't match expected type", 400)
                   ELSE createValidate(db, data, last.cre.parent.parentPath)
       IN  /\ out.db.nextId <= MaxId + 1
           /\ db' = out.db
           /\ last' = [last EXCEPT !.cre = [Answered(@, out) EXCEPT !.target = out.target]]
    /\ UNCHANGED pre

NextRace ==
    \/ RaceDeleteFetch \/ RaceDeleteAuthorize \/ RaceDeleteChildren \/ RaceDeleteTransaction
    \/ RaceCreateFetch \/ RaceCreateAuthorize \/ RaceCreateInsert

SpecRace == InitRace /\ [][NextRace]_vars

\* Both requests of the race have been answered.
RaceOver == last.op = "race" /\ last.del.pc = "done" /\ last.cre.pc = "done"

\* The parent named by a parentPath: its last-but-one id.
PathParent(path) == path[Len(path) - 1]

\* Some unit's parentPath names a parent that is not stored.
Orphans(d) ==
    { u \in UnitIds(d) :
        Len(d.units[u].parentPath) >= 2 /\ PathParent(d.units[u].parentPath) \notin UnitIds(d) }

\* C11: when a delete of unit U and a create whose parent is U are in flight
\* together, in every interleaving at least one of the two fails (with the
\* has-children error or another failure) and, once both are answered, no stored
\* unit's parent has been deleted.
C11_DeleteCreateRace ==
    RaceOver =>
        /\ last.del.status # 200 \/ last.cre.status # 200
        /\ Orphans(db) = {}

\* C12: has( permission, officer ) fails with the no-granting-office error both
\* when the officer holds no office and when none of the officer's offices
\* carries the permission; it returns a set only when that set is non-empty, and
\* then exactly the officer's offices whose roles contain the permission.
C12_HasFailsWithoutGrantingOffice ==
    last.op = "has" =>
        LET granting == Carrying(pre, last.officer.id, last.permission)
        IN  /\ granting = {} =>
                  /\ ~last.ok
                  /\ last.error \in {"User has no offices", "No offices with permission"}
            /\ last.ok => last.offices # {} /\ last.offices = granting

\* Some office of user u carries the permission over one of the units.
CarriesOver(d, u, permission, units) ==
    \E o \in Carrying(d, u, permission) : o.parentOrgID \in units

\* C15: hasOverUser grants, for a user without orgUnit, exactly when an office
\* of the officer carrying the permission has parentOrgID = the root (1); for a
\* user with an orgUnit, exactly when such an office has parentOrgID = the
\* user's unit or one of its ancestors; otherwise it fails with an error.
C15_HasOverUserIff ==
    last.op = "hasOverUser" =>
        LET u     == last.officer.id
            org   == last.user.orgUnit
            scope == IF org = Null THEN {RootID} ELSE {org} \cup Ancestors(pre, org)
        IN  /\ last.granted <=> CarriesOver(pre, u, last.permission, scope)
            /\ ~last.granted => last.error # ""

\* A user attached to a unit, granted through an office over a proper ancestor
\* of the unit that is not the root.
C15_Witness ==
    /\ last.op = "hasOverUser"
    /\ last.granted
    /\ last.user.orgUnit # Null
    /\ ~CarriesOver(pre, last.officer.id, last.permission, {RootID, last.user.orgUnit})

(***************************************************************************)
(* hasOverOffice called on its own: every graph of parentOfficeID links     *)
(* over MaxOffices offices, cycles included.  Each call of hasOverOffice,   *)
(* the recursive ones included, is a step; last holds the call in progress. *)
(***************************************************************************)
\* Offices 1..MaxOffices are linked by parentOfficeID.
MaxOffices == 3
\* Calls of hasOverOffice followed within one resolution.
MaxCalls == 6

\* An office of user 2 under a parent office (or under the root unit); no roles.
ChainOffice(id, parentOfficeID) ==
    [id |-> id, userID |-> 2,
     parentOrgID |-> IF parentOfficeID = Null THEN RootID ELSE Null,
     parentOfficeID |-> parentOfficeID, parentID |-> Null, roles |-> {}]

\* The office of user 1: it carries org_update, and its parentID names the
\* office it is matched against (none for Null).
GrantingOffice(parentID) ==
    [id |-> MaxOffices + 1, userID |-> 1, parentOrgID |-> RootID,
     parentOfficeID |-> Null, parentID |-> parentID, roles |-> {"org_update"}]

OfficeSeeds ==
    { [units   |-> SeedNation.units,
       offices |-> { ChainOffice(i, f[i]) : i \in 1..MaxOffices } \cup {GrantingOffice(m)},
       users   |-> SeedNation.users,
       nextId  |-> SeedNation.nextId] :
        f \in [1..MaxOffices -> 0..MaxOffices], m \in 0..MaxOffices }

\* The office argument: a fetched model or an integer id.
OfficeModel(id) == [kind |-> "model", id |-> id]
OfficeId(id)    == [kind |-> "id", id |-> id]

\* new Offices({ id: office }).fetch(): the rows with that id.
officeRows(d, id) == { o \in d.offices : o.id = id }

\* mapCollection(coll, field) for field parentID.
mapParentID(coll) == { o.parentID : o \in coll }

\* How one call of hasOverOffice ends: with a result, or in a call of itself.
Returns(p) == [done |-> TRUE, result |-> p, office |-> OfficeId(Null), officer |-> OfficerId(Null)]
Recurses(office, officer) == [done |-> FALSE, result |-> Granted, office |-> office, officer |-> officer]

\* The body of hasOverOffice once the office is a model: the .tap that asks for
\* parentOfficeID, has(), the match against parentID, the recursive call.
officeMatchCheck(d, row, permission, officer) ==
    IF row.parentOfficeID = Null
    THEN Returns(Denied("Office not in chain"))
    ELSE LET h == has(d, permission, officer)
         IN  IF ~h.ok THEN Returns(Denied(h.error))
             ELSE IF row.id \in mapParentID(h.offices) THEN Returns(Granted)
             ELSE Recurses(OfficeId(row.parentOfficeID), OfficerOffices(h.offices))

\* One call of hasOverOffice( office, permission, officer ).
hasOverOffice(d, office, permission, officer) ==
    LET rows == officeRows(d, office.id)
    IN  IF rows = {} THEN Returns(DeniedUser("Office not found.", 404))
        ELSE officeMatchCheck(d, CHOOSE o \in rows : TRUE, permission, officer)

InitOffice ==
    /\ db \in OfficeSeeds
    /\ pre = db
    /\ last = Idle

\* A caller calls hasOverOffice( office, permission, officer ).
CallHasOverOffice ==
    \E office \in { OfficeModel(i) : i \in 1..MaxOffices } \cup { OfficeId(i) : i \in 1..(MaxOffices + 2) },
       permission \in {"org_update", "org_create_domain"}, officer \in 1..NumUsers :
        /\ last = Idle
        /\ last' = [op |-> "hasOverOffice", pc |-> "call", target |-> office,
                    permission |-> permission, user |-> officer,
                    office |-> office, officer |-> OfficerId(officer), visited |-> <<>>,
                    granted |-> FALSE, error |-> "", userError |-> FALSE, status |-> 0]
        /\ UNCHANGED <<db, pre>>

\* The pending call of hasOverOffice runs: it settles the resolution or leaves
\* a call on the parent office pending.
HasOverOfficeStep ==
    /\ last.op = "hasOverOffice" /\ last.pc = "call"
    /\ Len(last.visited) < MaxCalls
    /\ LET r == hasOverOffice(db, last.office, last.permission, last.officer)
       IN  last' = IF r.done
                   THEN [last EXCEPT !.pc = "done", !.visited = Append(@, last.office.id),
                                     !.granted = r.result.granted, !.error = r.result.error,
                                     !.userError = r.result.userError,
                                     !.status = r.result.status]
                   ELSE [last EXCEPT !.visited = Append(@, last.office.id),
                                     !.office = r.office, !.officer = r.officer]
    /\ UNCHANGED <<db, pre>>

NextOffice == CallHasOverOffice \/ HasOverOfficeStep

SpecOffice == InitOffice /\ [][NextOffice]_vars

\* C13: hasOverOffice terminates on every office graph: a resolution makes at
\* most one call per stored office and one more (the call that meets an office
\* again), so also on a cycle of parentOfficeID links without a matching
\* granting office it ends, with a failure, instead of recursing on.
C13_HasOverOfficeTerminates ==
    last.op = "hasOverOffice" =>
        /\ Len(last.visited) <= Cardinality(db.offices) + 1
        /\ last.pc = "done" /\ ~last.granted => last.error # ""

\* The offices met from office id on by following parentOfficeID, id included;
\* seen stops the walk on a cycle.
RECURSIVE OfficeChain(_, _, _)
OfficeChain(d, id, seen) ==
    IF id = Null \/ id \in seen \/ officeRows(d, id) = {} THEN seen
    ELSE OfficeChain(d, (CHOOSE o \in officeRows(d, id) : TRUE).parentOfficeID, seen \cup {id})

\* The parentOfficeID links from office id on end at an office without one.
RECURSIVE ChainEnds(_, _, _)
ChainEnds(d, id, seen) ==
    IF id = Null THEN TRUE
    ELSE IF id \in seen \/ officeRows(d, id) = {} THEN FALSE
    ELSE ChainEnds(d, (CHOOSE o \in officeRows(d, id) : TRUE).parentOfficeID, seen \cup {id})

\* C14: on an acyclic chain of offices (A -> B -> C by parentOfficeID), the call
\* on an office that has a parent office grants exactly when an office of the
\* officer carrying the permission matches (by its parentID) the target or an
\* office reached from it by parentOfficeID links, the last office of the chain
\* included.
C14_LastOfficeOfChainGrants ==
    (/\ last.op = "hasOverOffice" /\ last.pc = "done"
     /\ officeRows(db, last.target.id) # {}
     /\ (CHOOSE o \in officeRows(db, last.target.id) : TRUE).parentOfficeID # Null
     /\ ChainEnds(db, last.target.id, {}))
    => (last.granted <=>
          \E o \in Carrying(db, last.user, last.permission) :
              o.parentID \in OfficeChain(db, last.target.id, {}))

\* The nested-set bounds of database d are valid: lft < rgt for every unit, the
\* interval of a descendant strictly inside that of each ancestor, the intervals
\* of siblings apart.
NestedSetValid(d) ==
    /\ \A u \in UnitIds(d) :
          d.units[u].lft # Null /\ d.units[u].rgt # Null /\ d.units[u].lft < d.units[u].rgt
    /\ \A v \in UnitIds(d) : \A u \in Ancestors(d, v) :
          d.units[u].lft < d.units[v].lft /\ d.units[v].rgt < d.units[u].rgt
    /\ \A u, v \in UnitIds(d) :
          (u # v /\ d.units[u].parentID = d.units[v].parentID)
              => (d.units[u].rgt < d.units[v].lft \/ d.units[v].rgt < d.units[u].lft)

\* C16: after every successful create or delete the nested-set bounds are valid:
\* every unit has lft < rgt, a descendant's interval lies strictly inside its
\* ancestors' and sibling intervals do not overlap.
C16_NestedSetBounds ==
    (last.op \in {"create", "delete"} /\ last.status = 200) => NestedSetValid(db)

\* Every unit's parentPath is its parent's parentPath followed by its own id;
\* the root's is its own id.
PathsConsistent(d) ==
    \A u \in UnitIds(d) :
        IF d.units[u].parentID = Null
        THEN d.units[u].parentPath = <<u>>
        ELSE /\ d.units[u].parentID \in UnitIds(d)
             /\ d.units[u].parentPath = Append(d.units[d.units[u].parentID].parentPath, u)

InvalidAttributes(data) ==
    \/ ~Has(data, "name") \/ data.name = ""
    \/ ~Has(data, "code") \/ data.code = <<>>
    \/ (data.type = "Venue" /\ (~Has(data, "venueType") \/ data.venueType = ""))

\* C18: a create request that is authorized and correctly ranked but whose
\* attributes are invalid fails with the validation error as a client error
\* (400), never as 500 or 403, and inserts no unit.
C18_InvalidAttributesAre400 ==
    \A parent \in UnitIds(pre) :
        (/\ CreateUnder(parent)
         /\ Rank(last.data.type) = Rank(pre.units[parent].type) + 1
         /\ Covers(pre, last.officer, "org_create_" \o toLowerCase(last.data.type), parent)
         /\ InvalidAttributes(last.data))
        => /\ last.status = 400
           /\ db = pre

\* The update or delete request names unit id by its code, which no other unit has.
NamesByCode(id) ==
    /\ last.op \in {"update", "delete"}
    /\ id \in UnitIds(pre)
    /\ last.ref = pre.units[id].code
    /\ \A v \in UnitIds(pre) : pre.units[v].code = last.ref => v = id

\* C19: an update or delete request that names its unit by code acts on the
\* same unit, with the same response and the same rows afterwards, as the same
\* request naming the unit by its numeric id.
C19_ByCodeAsById ==
    \A id \in UnitIds(pre) :
        NamesByCode(id) =>
            LET byId == IF last.op = "update"
                        THEN update(pre, IdString(id), last.data, OfficerId(last.officer))
                        ELSE delete(pre, IdString(id), OfficerId(last.officer))
            IN  /\ last.status = byId.status
                /\ last.error = byId.error
                /\ db = byId.db

\* A statement of the delete transaction failed.
StatementFailed == last.op = "delete" /\ Has(last.data, "fault")

\* C20: delete is all-or-nothing: when one of the three statements of its
\* transaction fails (the delete of the offices, the reassignment of the users,
\* the delete of the unit row), the request fails and units, offices and users
\* are as they were; a delete request changes the rows only when it succeeds.
C20_DeleteAllOrNothing ==
    /\ StatementFailed => (last.status \in {403, 500} /\ db = pre)
    /\ (last.op = "delete" /\ last.status # 200) => db = pre

\* One statement failed in the delete of a unit that has offices and users.
C20_Witness ==
    /\ StatementFailed
    /\ \E id \in UnitIds(pre) :
          /\ NamesById("delete", id)
          /\ \E o \in pre.offices : o.parentOrgID = id
          /\ \E u \in DOMAIN pre.users : pre.users[u] = id

(***************************************************************************)
(* The read side: getChain and sortChain (controllers/org-units.js), called *)
(* on every unit of every valid tree of up to MaxChain units.  The objects  *)
(* of the units array are kept by id: the array holds ids (Null where the   *)
(* code stores false), children maps each id to its children array.         *)
(***************************************************************************)
\* The largest tree getChain is called on.
MaxChain == 5

\* The ids of set S in lft-ascending order.
RECURSIVE SortByLft(_, _)
SortByLft(d, S) ==
    IF S = {} THEN <<>>
    ELSE LET m == CHOOSE u \in S : \A v \in S : d.units[u].lft <= d.units[v].lft
         IN  <<m>> \o SortByLft(d, S \ {m})

\* unit.getChain(): the units whose interval contains the unit's or lies inside
\* it, in lft order.
unitChain(d, id) ==
    LET left  == d.units[id].lft
        right == d.units[id].rgt
    IN  SortByLft(d, { u \in UnitIds(d) :
                         \/ d.units[u].lft < left /\ d.units[u].rgt > right
                         \/ d.units[u].lft > left /\ d.units[u].rgt < right })

\* u.toJSON() with lft and rgt added.
unitJSON(d, u) ==
    [id |-> u, type |-> d.units[u].type, lft |-> d.units[u].lft, rgt |-> d.units[u].rgt]

\* Array.prototype.filter / the two halves of _.partition.
RECURSIVE SelectSeq2(_, _, _)
SelectSeq2(arr, left, keepLower) ==
    IF arr = <<>> THEN <<>>
    ELSE LET rest == SelectSeq2(Tail(arr), left, keepLower)
         IN  IF (Head(arr).lft < left) = keepLower THEN <<Head(arr)>> \o rest ELSE rest

\* _.compact: the array without its falsy entries.
RECURSIVE compact(_)
compact(arr) ==
    IF arr = <<>> THEN <<>>
    ELSE IF Head(arr) = Null THEN compact(Tail(arr))
    ELSE <<Head(arr)>> \o compact(Tail(arr))

\* nearestLower scanning from the front of the array instead.
firstLower(units, i) ==
    LET lower == { u \in 1..(i - 1) :
                     indexOf(Types, units[i].type) > indexOf(Types, units[u].type) }
    IN  IF lower = {} THEN 0 ELSE CHOOSE u \in lower : \A v \in lower : u <= v

\* The inner loop of sortChain: from i - 1 downwards, the first index whose type
\* ranks below that of units[ i ]; 0 when the loop ends without one.
nearestLower(units, i) ==
    LET lower == { u \in 1..(i - 1) :
                     indexOf(Types, units[i].type) > indexOf(Types, units[u].type) }
    IN  IF lower = {} THEN 0 ELSE CHOOSE u \in lower : \A v \in lower : v <= u

\* The outer loop of sortChain from index i down to the second entry.
RECURSIVE sortLoop(_, _, _)
sortLoop(units, st, i) ==
    IF i < 2 THEN st
    ELSE LET u == nearestLower(units, i)
         IN  IF u = 0 THEN sortLoop(units, st, i - 1)
             ELSE sortLoop(units,
                           [arr      |-> [st.arr EXCEPT ![i] = Null],
                            children |-> [st.children EXCEPT
                                            ![units[u].id] = Append(@, units[i].id)]],
                           i - 1)

\* sortChain( units ): every unit gets an empty children array, the loops
\* attach, _.compact drops the attached entries.
sortChain(units) ==
    LET ids == { units[k].id : k \in 1..Len(units) }
        st  == sortLoop(units,
                        [arr      |-> [k \in 1..Len(units) |-> units[k].id],
                         children |-> [n \in ids |-> <<>>]],
                        Len(units))
    IN  [top |-> compact(st.arr), children |-> st.children]

\* getChain( unit ): parents and children of the response; children are sorted
\* only when there is more than one.
getChain(d, id) ==
    LET left    == d.units[id].lft
        units   == [k \in 1..Len(unitChain(d, id)) |-> unitJSON(d, unitChain(d, id)[k])]
        before  == SelectSeq2(units, left, TRUE)
        rest    == SelectSeq2(units, left, FALSE)
        sorted  == sortChain(rest)
    IN  [parents  |-> [k \in 1..Len(before) |-> before[k].id],
         children |-> IF Len(rest) > 1 THEN sorted.top
                      ELSE [k \in 1..Len(rest) |-> rest[k].id],
         nested   |-> IF Len(rest) > 1 THEN sorted.children
                      ELSE [n \in { rest[k].id : k \in 1..Len(rest) } |-> <<>>]]

\* The valid trees of up to MaxChain units, with their nested-set bounds.
ChainSeeds ==
    UNION { { [units |-> TreeUnits(n, par), offices |-> {},
               users |-> [u \in 1..NumUsers |-> Null], nextId |-> n + 1] :
                par \in ParentLinks(n) } :
            n \in 1..MaxChain }

InitChain ==
    /\ db \in ChainSeeds
    /\ pre = db
    /\ last = Idle

\* A request for a unit: getChain builds the response.
CallGetChain ==
    \E id \in UnitIds(db) :
        LET r == getChain(db, id)
        IN  /\ last = Idle
            /\ last' = [op |-> "getChain", unit |-> id, parents |-> r.parents,
                        children |-> r.children, nested |-> r.nested]
            /\ pre' = db
            /\ UNCHANGED db

\* sortChain called on the descendants of a unit in lft order.
CallSortChain ==
    \E id \in UnitIds(db) :
        LET desc == SelectSeq2([k \in 1..Len(unitChain(db, id)) |->
                                   unitJSON(db, unitChain(db, id)[k])],
                               db.units[id].lft, FALSE)
            r    == sortChain(desc)
        IN  /\ last = Idle
            /\ last' = [op |-> "sortChain", unit |-> id, parents |-> <<>>,
                        children |-> r.top, nested |-> r.children]
            /\ pre' = db
            /\ UNCHANGED db

NextChain == CallGetChain \/ CallSortChain \/ Respond

SpecChain == InitChain /\ [][NextChain]_vars

\* The elements of a sequence.
Range(seq) == { seq[k] : k \in 1..Len(seq) }

\* The descendants of a unit by parentID links.
Descendants(d, id) == { v \in UnitIds(d) : id \in Ancestors(d, v) }

\* The stack construction: the top of the stack is popped and attached to the
\* entry under it (to the top level when there is none).
PopAttach(st) ==
    LET t    == st.stack[Len(st.stack)]
        rest == SubSeq(st.stack, 1, Len(st.stack) - 1)
    IN  IF rest = <<>>
        THEN [stack |-> rest, top |-> Append(st.top, t), children |-> st.children]
        ELSE [stack |-> rest, top |-> st.top,
              children |-> [st.children EXCEPT ![rest[Len(rest)]] = Append(@, t)]]

\* Pop and attach while the rank does not increase from the top of the stack to
\* rank; rank -1 empties the stack.
RECURSIVE PopWhile(_, _, _)
PopWhile(d, st, rank) ==
    IF st.stack = <<>> \/ Rank(d.units[st.stack[Len(st.stack)]].type) < rank THEN st
    ELSE PopWhile(d, PopAttach(st), rank)

RECURSIVE StackRun(_, _, _)
StackRun(d, list, st) ==
    IF list = <<>> THEN PopWhile(d, st, -1)
    ELSE LET popped == PopWhile(d, st, Rank(d.units[Head(list)].type))
         IN  StackRun(d, Tail(list), [popped EXCEPT !.stack = Append(@, Head(list))])

\* The forest the stack construction builds from the ids in lft order.
StackForest(d, list) ==
    StackRun(d, list, [stack |-> <<>>, top |-> <<>>, children |-> [n \in Range(list) |-> <<>>]])

\* The sum of the lengths of the children arrays of the nodes in S.
RECURSIVE ChildCount(_, _)
ChildCount(nested, S) ==
    IF S = {} THEN 0
    ELSE LET n == CHOOSE x \in S : TRUE
         IN  Len(nested[n]) + ChildCount(nested, S \ {n})

\* C21: for every valid tree and every unit, sortChain on the unit's
\* descendants in lft order returns a forest in which every descendant appears
\* exactly once, each node's children array holds exactly its immediate child
\* units and the top level holds exactly the descendants without a parent in the
\* list: the forest of the stack construction, whose children arrays it lists
\* last child first; and getChain puts a unit of the chain among parents exactly
\* when its lft is smaller than the unit's lft.
C21_SortChainForest ==
    last.op \in {"getChain", "sortChain"} =>
        LET id    == last.unit
            desc  == Descendants(pre, id)
            stack == StackForest(pre, SortByLft(pre, desc))
        IN  /\ DOMAIN last.nested = desc
            /\ Range(last.children) \cup UNION { Range(last.nested[n]) : n \in desc } = desc
            /\ Len(last.children) + ChildCount(last.nested, desc) = Cardinality(desc)
            /\ \A n \in desc : Range(last.nested[n]) = ChildrenOf(pre, n)
            /\ Range(last.children) = { n \in desc : pre.units[n].parentID \notin desc }
            /\ last.children = stack.top
            /\ \A n \in desc : last.nested[n] = Reverse(stack.children[n])
            /\ last.op = "getChain" =>
                  /\ Range(last.parents) = Ancestors(pre, id)
                  /\ \A u \in Range(last.parents) \cup desc :
                        u \in Range(last.parents) <=> pre.units[u].lft < pre.units[id].lft

\* getChain on a unit with ancestors and with a descendant that has two
\* children in the list.
C21_Witness ==
    /\ last.op = "getChain"
    /\ last.parents # <<>>
    /\ \E n \in DOMAIN last.nested : Len(last.nested[n]) >= 2
====
